---- MODULE Spec2Model ----
(***************************************************************************)
(* Model of the tax-declaration backend: the declaration workflow          *)
(* (declarations.service / declarations.repository), persistence of rule   *)
(* engine runs (ruleEngine.service), the XML projector's generate handler  *)
(* and source-record ingestion (sources.service).                          *)
(*                                                                         *)
(* Every request handler is an async function.  Node runs the code between *)
(* two awaits atomically, and a database statement is atomic, so a handler *)
(* is modelled as a small process whose steps are its database statements  *)
(* together with the synchronous code that follows them.  Awaits that only *)
(* read data the model does not hold (userHasAccess, getFullIdentity) are  *)
(* folded into the neighbouring step.  Access checks always pass.          *)
(***************************************************************************)
EXTENDS Integers, Sequences, FiniteSets, TLC

\* ------------------------------------------------------------------ bounds
\* Highest declaration row id the database hands out.
MaxDeclId == 1
\* Validation reports kept per declaration before validate is no longer started.
MaxReports == 3
\* XML exports kept per declaration before project_xml is no longer started.
MaxXml == 2
\* Source records kept before ingest is no longer started.
MaxSources == 3

\* ------------------------------------------------------- maps (JS objects)
EmptyMap == [k \in {} |-> 0]

Get(fv, k) == IF k \in DOMAIN fv THEN fv[k] ELSE 0

Put(fv, k, v) == [x \in (DOMAIN fv) \cup {k} |-> IF x = k THEN v ELSE fv[x]]

RECURSIVE SumCodes(_, _, _)
SumCodes(fv, codes, i) ==
    IF i > Len(codes) THEN 0 ELSE Get(fv, codes[i]) + SumCodes(fv, codes, i + 1)

Max0(x) == IF x > 0 THEN x ELSE 0

\* Math.round(x * 0.1) on an integer amount: nearest integer, halves up.
RoundTenth(x) == (x + 5) \div 10

\* ------------------------------------------------- rule engine, phases 3-7
PropertyIncomes ==
    << "LF_INCOME_PROPERTY_KZ", "LF_INCOME_PROPERTY_FOREIGN",
       "LF_INCOME_PROPERTY_CAPITAL_CONTRIBUTION" >>

ForeignIncomes ==
    << "LF_INCOME_FOREIGN_EMPLOYMENT", "LF_INCOME_FOREIGN_GPC", "LF_INCOME_FOREIGN_WIN",
       "LF_INCOME_FOREIGN_DIVIDENDS", "LF_INCOME_FOREIGN_INTEREST",
       "LF_INCOME_FOREIGN_SCHOLARSHIP", "LF_INCOME_FOREIGN_INSURANCE",
       "LF_INCOME_FOREIGN_PENSION", "LF_INCOME_FOREIGN_OTHER" >>

Deductions == << "LF_DEDUCTION_STANDARD", "LF_DEDUCTION_OTHER" >>

Adjustments ==
    << "LF_ADJUSTMENT_EXCLUDED_ART_341", "LF_ADJUSTMENT_EXCLUDED_ART_654",
       "LF_ADJUSTMENT_EXCLUDED_TREATY", "LF_ADJUSTMENT_EXCLUDED_AIFC" >>

IncomeCategories ==
    << "LF_INCOME_PROPERTY_TOTAL", "LF_INCOME_RENT_NON_AGENT", "LF_INCOME_ASSIGNMENT_RIGHTS",
       "LF_INCOME_IP_OTHER_ASSETS", "LF_INCOME_FOREIGN_TOTAL", "LF_INCOME_DOMESTIC_HELPERS",
       "LF_INCOME_CITIZENS_GPC", "LF_INCOME_MEDIATOR", "LF_INCOME_SUBSIDIARY_FARM",
       "LF_INCOME_LABOR_MIGRANT", "LF_INCOME_OTHER_NON_AGENT", "LF_INCOME_CFC_PROFIT" >>

\* One "if not set and sum > 0 then set" block of autoCalculateBaseTotals.
SetTotal(fv, target, codes) ==
    IF target \notin DOMAIN fv /\ SumCodes(fv, codes, 1) > 0
    THEN Put(fv, target, SumCodes(fv, codes, 1))
    ELSE fv

autoCalculateBaseTotals(fv) ==
    LET a == SetTotal(fv, "LF_INCOME_PROPERTY_TOTAL", PropertyIncomes)
        b == SetTotal(a, "LF_INCOME_FOREIGN_TOTAL", ForeignIncomes)
        c == SetTotal(b, "LF_DEDUCTION_TOTAL", Deductions)
        d == SetTotal(c, "LF_ADJUSTMENT_TOTAL", Adjustments)
    IN  SetTotal(d, "LF_INCOME_TOTAL", IncomeCategories)

autoCalculateDerivedFields(fv) ==
    LET a == IF Get(fv, "LF_TAXABLE_INCOME") = 0
             THEN Put(fv, "LF_TAXABLE_INCOME",
                      Max0(Get(fv, "LF_INCOME_TOTAL") - Get(fv, "LF_ADJUSTMENT_TOTAL")
                           - Get(fv, "LF_DEDUCTION_TOTAL")))
             ELSE fv
        b == IF Get(a, "LF_IPN_CALCULATED") = 0
             THEN Put(a, "LF_IPN_CALCULATED", RoundTenth(Get(a, "LF_TAXABLE_INCOME")))
             ELSE a
    IN  IF Get(b, "LF_IPN_PAYABLE") = 0
        THEN Put(b, "LF_IPN_PAYABLE",
                 Max0(Get(b, "LF_IPN_CALCULATED")
                      - (Get(b, "LF_FOREIGN_TAX_CREDIT_GENERAL")
                         + Get(b, "LF_FOREIGN_TAX_CREDIT_CFC"))))
        ELSE b

\* The flags object after phase 7, starting from the flags fl of the earlier phases.
autoSetFlags(fv, fl) ==
    LET on == (IF Get(fv, "LF_INCOME_TOTAL") > 0 THEN {"has_income"} ELSE {})
              \cup (IF Get(fv, "LF_INCOME_FOREIGN_TOTAL") > 0
                    THEN {"has_foreign_income", "pril_2"} ELSE {})
              \cup (IF Get(fv, "LF_INCOME_CFC_PROFIT") > 0 THEN {"has_cfc", "pril_3"} ELSE {})
              \cup (IF Get(fv, "LF_DEDUCTION_TOTAL") > 0 THEN {"has_deductions"} ELSE {})
              \cup (IF \/ Get(fv, "LF_INCOME_PROPERTY_TOTAL") > 0
                       \/ Get(fv, "LF_INCOME_RENT_NON_AGENT") > 0
                       \/ Get(fv, "LF_INCOME_OTHER_NON_AGENT") > 0
                    THEN {"pril_1"} ELSE {})
    IN  [k \in (DOMAIN fl) \cup on |-> IF k \in on THEN TRUE ELSE fl[k]]

\* run() from the field values accumulated by the mapping phase, under a rule
\* set that holds no calculation and no flag rules: phases 3, 5 and 7.
runFromMapped(mapped) ==
    LET fv == autoCalculateDerivedFields(autoCalculateBaseTotals(mapped))
    IN  [fieldValues |-> fv, flags |-> autoSetFlags(fv, EmptyMap)]

\* Field values the mapping phase leaves for three stored event sets: no events;
\* one foreign-dividend event; a property sale fully offset by a deduction.
MappedInputs ==
    { EmptyMap,
      [k \in {"LF_INCOME_FOREIGN_DIVIDENDS"} |-> 50],
      [k \in {"LF_INCOME_PROPERTY_KZ", "LF_DEDUCTION_STANDARD"} |-> 20] }

EngineResults == { runFromMapped(m) : m \in MappedInputs }

NoResult == [fieldValues |-> EmptyMap, flags |-> EmptyMap]

\* ---------------------------------------------------------------- state
VARIABLES
    decl,      \* the declarations row of the taxpayer-year for form 270.00, or NoDecl
    items,     \* declaration_items of that row: logical_field -> [value, source]
    reports,   \* validation_reports of that row, oldest first
    xmls,      \* xml_exports of that row, oldest first
    nextId,    \* the id the next inserted declarations row gets
    sources,   \* source_records of the taxpayer, oldest first
    events,    \* tax_events of the taxpayer, in insertion order
    req,       \* the requests in flight: slot -> handler position and locals
    quota      \* how many more requests arrive

vars == << decl, items, reports, xmls, nextId, sources, events, req, quota >>

dbDecl == << decl, items, reports, xmls, nextId >>

\* Requests that can be in flight at once.
MaxInFlight == 2

\* Calendar days on which a request may be served.
MaxDay == 2

Days == 1 .. MaxDay

\* Requests served one after another, and requests served in parallel.
MaxRequests == 10

MaxParallel == 4

Slots == 1 .. MaxInFlight

DeclIds == 1 .. MaxDeclId

Statuses ==
    { "draft", "validated", "awaiting_consent", "signed", "submitted", "accepted", "rejected" }

Kinds == { "main", "regular" }

\* hdr 0: the header snapshot copied from the identity; 1: a header edited by the user.
NoDecl == [id |-> 0, status |-> "draft", kind |-> "main", flags |-> EmptyMap, hdr |-> 0]

NoItems == [k \in {} |-> [value |-> 0, source |-> "rule_engine"]]

NoContent ==
    [items |-> EmptyMap, form01 |-> EmptyMap, flags |-> EmptyMap, hdr |-> 0,
     kind |-> "main", date |-> 0]

\* A raw payload: the top-level keys with a scalar value, those whose value
\* is an object (key -> the object's own keys and values), and the array under
\* the key "events" (<< >> when the payload has no such key).
NoPayload == [scalars |-> EmptyMap, objects |-> EmptyMap, events |-> << >>]

\* A request slot. checked: validateXmlStructure has been run on doc; no
\* statement of xmlGeneratorService.generate runs it.
Idle ==
    [op |-> "idle", pc |-> "idle", id |-> 0, st |-> "draft", to |-> "draft",
     kind |-> "main", fld |-> "", val |-> 0, hdr |-> 0, rs |-> NoResult,
     doc |-> NoContent, ver |-> 0, code |-> 0,
     payload |-> NoPayload, externalId |-> "", existing |-> 0, record |-> 0,
     parsed |-> << >>, created |-> 0, skipped |-> 0, deleted |-> 0,
     rows |-> << >>, rules |-> << >>, mappings |-> << >>, errors |-> << >>,
     checked |-> FALSE]

Busy(p) == req[p].pc \notin {"idle", "done"}

\* A request starts in the lowest free slot (slots are interchangeable).
CanStart(p) ==
    /\ quota > 0
    /\ req[p].pc = "idle"
    /\ \A q \in Slots : q < p => req[q].pc # "idle"

\* The handler in slot p moves on to r; a request that starts uses up quota.
Go(p, r) ==
    /\ req' = [req EXCEPT ![p] = r]
    /\ quota' = IF req[p].pc = "idle" THEN quota - 1 ELSE quota

At(p, op, pc) == [Idle EXCEPT !.op = op, !.pc = pc]

\* The handler returns or throws: the response with its HTTP status code is
\* ready; the request and its locals live until the response is sent.
Done(p, op, code) == Go(p, [req[p] EXCEPT !.op = op, !.pc = "done", !.code = code])

Init ==
    /\ decl = NoDecl
    /\ items = NoItems
    /\ reports = << >>
    /\ xmls = << >>
    /\ nextId = 1
    /\ sources = << >>
    /\ events = << >>
    /\ req = [p \in Slots |-> Idle]
    /\ quota = MaxRequests

\* ------------------------------------------------ declarations.repository
\* INSERT INTO declarations ... 'draft': the new row; the unique index
\* uq_decl_identity_year_form admits one row per (identity, year, form).
InsertDecl(kind) ==
    /\ decl' = [id |-> nextId, status |-> "draft", kind |-> kind, flags |-> EmptyMap, hdr |-> 0]
    /\ nextId' = nextId + 1
    /\ items' = NoItems
    /\ reports' = << >>
    /\ xmls' = << >>

\* The entries bulkUpsertItems writes: it skips null, undefined and 0.
UpsertEntries(fieldValues) == { k \in DOMAIN fieldValues : fieldValues[k] # 0 }

bulkUpsertItems(its, fieldValues, source) ==
    [k \in (DOMAIN its) \cup UpsertEntries(fieldValues) |->
        IF k \in UpsertEntries(fieldValues)
        THEN [value |-> fieldValues[k], source |-> source]
        ELSE its[k]]

upsertItem(its, logicalField, value, source) ==
    [k \in (DOMAIN its) \cup {logicalField} |->
        IF k = logicalField THEN [value |-> value, source |-> source] ELSE its[k]]

\* getItemsAsObject: logical_field -> value.
getItemsAsObject(its) == [k \in DOMAIN its |-> its[k].value]

\* updateStatus(id, status): UPDATE ... WHERE id; no row, no change.
updateStatus(d, id, status) == IF d.id = id THEN [d EXCEPT !.status = status] ELSE d

\* COALESCE(flags, '{}') || $2: a shallow merge, the new keys win.
MergeFlags(old, new) ==
    [k \in (DOMAIN old) \cup (DOMAIN new) |-> IF k \in DOMAIN new THEN new[k] ELSE old[k]]

\* --------------------------------------------------- declarations.service
getAvailableTransitions(currentStatus) ==
    CASE currentStatus = "draft" -> {"validated"}
      [] currentStatus = "validated" -> {"draft", "awaiting_consent"}
      [] currentStatus = "awaiting_consent" -> {"validated", "signed"}
      [] currentStatus = "signed" -> {"submitted"}
      [] currentStatus = "submitted" -> {"accepted", "rejected"}
      [] currentStatus = "accepted" -> {}
      [] currentStatus = "rejected" -> {"draft"}
      [] OTHER -> {}

RequiredFields == {"LF_INCOME_TOTAL", "LF_TAXABLE_INCOME", "LF_IPN_CALCULATED"}

\* createOrGet, first statement: findByIdentityYearFormKind for form 270.00.
FindByKind(kind) == decl.id # 0 /\ decl.kind = kind

\* POST /declarations: createOrGet(options.declarationKind).
CreateFind(p) ==
    /\ CanStart(p)
    /\ \E kind \in Kinds :
        IF FindByKind(kind)
        THEN Done(p, "create", 200)
        ELSE /\ nextId <= MaxDeclId
             /\ Go(p, [At(p, "create", "create_insert") EXCEPT !.kind = kind])
    /\ UNCHANGED << dbDecl, sources, events >>

CreateInsert(p) ==
    /\ req[p].pc = "create_insert"
    /\ IF decl.id # 0
       THEN /\ Done(p, "create", 409)
            /\ UNCHANGED dbDecl
       ELSE /\ nextId <= MaxDeclId
            /\ InsertDecl(req[p].kind)
            /\ Done(p, "create", 201)
    /\ UNCHANGED << sources, events >>

\* POST /declarations/:id/generate: the controller's getById(id), then
\* service.generate(tax_identity_id, tax_year), which starts with createOrGet.
GenGet(p) ==
    /\ CanStart(p)
    /\ \E id \in DeclIds :
        IF decl.id = id
        THEN Go(p, At(p, "generate", "gen_find"))
        ELSE Done(p, "generate", 404)
    /\ UNCHANGED << dbDecl, sources, events >>

\* createOrGet with the default options (form 270.00, kind main), then the
\* status check on the row it returned.
GenFind(p) ==
    /\ req[p].pc = "gen_find"
    /\ IF FindByKind("main")
       THEN IF decl.status \in {"submitted", "accepted"}
            THEN Done(p, "generate", 409)
            ELSE Go(p, [req[p] EXCEPT !.pc = "gen_run", !.id = decl.id, !.st = decl.status])
       ELSE Go(p, [req[p] EXCEPT !.pc = "gen_insert"])
    /\ UNCHANGED << dbDecl, sources, events >>

GenInsert(p) ==
    /\ req[p].pc = "gen_insert"
    /\ IF decl.id # 0
       THEN /\ Done(p, "generate", 409)
            /\ UNCHANGED dbDecl
       ELSE /\ nextId <= MaxDeclId
            /\ InsertDecl("main")
            /\ Go(p, [req[p] EXCEPT !.pc = "gen_run", !.id = nextId, !.st = "draft"])
    /\ UNCHANGED << sources, events >>

\* ruleEngineService.runEngine(persist: false, allowEmpty: true): the events and
\* rules are read and run() is evaluated.
GenRun(p) ==
    /\ req[p].pc = "gen_run"
    /\ \E r \in EngineResults : Go(p, [req[p] EXCEPT !.pc = "gen_delete", !.rs = r])
    /\ UNCHANGED << dbDecl, sources, events >>

\* Where generate goes after deleteItems / after bulkUpsertItems.
GenAfterDelete(r) ==
    IF DOMAIN r.fieldValues # {} THEN "gen_upsert"
    ELSE IF DOMAIN r.flags # {} THEN "gen_flags" ELSE "done"

GenAfterUpsert(r) == IF DOMAIN r.flags # {} THEN "gen_flags" ELSE "done"

GenGoto(p, pc) ==
    IF pc = "done" THEN Done(p, "generate", 200) ELSE Go(p, [req[p] EXCEPT !.pc = pc])

\* deleteItems(declaration.id)
GenDelete(p) ==
    /\ req[p].pc = "gen_delete"
    /\ items' = IF decl.id = req[p].id THEN NoItems ELSE items
    /\ GenGoto(p, GenAfterDelete(req[p].rs))
    /\ UNCHANGED << decl, reports, xmls, nextId, sources, events >>

\* bulkUpsertItems(declaration.id, fieldValues, 'rule_engine'): one transaction;
\* an insert for a row that is gone violates the foreign key (400).
GenUpsert(p) ==
    /\ req[p].pc = "gen_upsert"
    /\ IF UpsertEntries(req[p].rs.fieldValues) # {} /\ decl.id # req[p].id
       THEN /\ Done(p, "generate", 400)
            /\ UNCHANGED items
       ELSE /\ items' = bulkUpsertItems(items, req[p].rs.fieldValues, "rule_engine")
            /\ GenGoto(p, GenAfterUpsert(req[p].rs))
    /\ UNCHANGED << decl, reports, xmls, nextId, sources, events >>

\* declarationsRepository.update(id, {flags}): SET flags = $1, then the final reads.
GenFlags(p) ==
    /\ req[p].pc = "gen_flags"
    /\ decl' = IF decl.id = req[p].id THEN [decl EXCEPT !.flags = req[p].rs.flags] ELSE decl
    /\ Done(p, "generate", 200)
    /\ UNCHANGED << items, reports, xmls, nextId, sources, events >>

\* PUT /declarations/:id: updateHeader. The controller passes every header key
\* and flags; a key absent from the body is written as NULL, so flags are
\* overwritten (here: by NULL, read back as {}).
HdrFind(p) ==
    /\ CanStart(p)
    /\ \E id \in DeclIds :
        IF decl.id # id THEN Done(p, "updateHeader", 404)
        ELSE IF decl.status \notin {"draft", "validated"} THEN Done(p, "updateHeader", 409)
        ELSE Go(p, [At(p, "updateHeader", "hdr_update") EXCEPT !.id = id, !.st = decl.status])
    /\ UNCHANGED << dbDecl, sources, events >>

HdrUpdate(p) ==
    /\ req[p].pc = "hdr_update"
    /\ decl' = IF decl.id = req[p].id
               THEN [decl EXCEPT !.hdr = 1, !.flags = EmptyMap,
                                 !.status = IF req[p].st = "validated" THEN "draft" ELSE @]
               ELSE decl
    /\ Done(p, "updateHeader", 200)
    /\ UNCHANGED << items, reports, xmls, nextId, sources, events >>

\* PUT /declarations/:id/items/:field: updateItem (manual override).
ManualFields == {"LF_INCOME_TOTAL"}

ManualValues == {7}

ItemFind(p) ==
    /\ CanStart(p)
    /\ \E id \in DeclIds, f \in ManualFields, v \in ManualValues :
        IF decl.id # id THEN Done(p, "updateItem", 404)
        ELSE IF decl.status \notin {"draft", "validated"} THEN Done(p, "updateItem", 409)
        ELSE Go(p, [At(p, "updateItem", "item_upsert") EXCEPT
                        !.id = id, !.st = decl.status, !.fld = f, !.val = v])
    /\ UNCHANGED << dbDecl, sources, events >>

ItemUpsert(p) ==
    /\ req[p].pc = "item_upsert"
    /\ IF decl.id # req[p].id
       THEN /\ Done(p, "updateItem", 400)
            /\ UNCHANGED items
       ELSE /\ items' = upsertItem(items, req[p].fld, req[p].val, "manual")
            /\ IF req[p].st = "validated"
               THEN Go(p, [req[p] EXCEPT !.pc = "item_status"])
               ELSE Done(p, "updateItem", 200)
    /\ UNCHANGED << decl, reports, xmls, nextId, sources, events >>

ItemStatus(p) ==
    /\ req[p].pc = "item_status"
    /\ decl' = updateStatus(decl, req[p].id, "draft")
    /\ Done(p, "updateItem", 200)
    /\ UNCHANGED << items, reports, xmls, nextId, sources, events >>

\* DELETE /declarations/:id
DelFind(p) ==
    /\ CanStart(p)
    /\ \E id \in DeclIds :
        IF decl.id # id THEN Done(p, "delete", 404)
        ELSE IF decl.status # "draft" THEN Done(p, "delete", 409)
        ELSE Go(p, [At(p, "delete", "del_delete") EXCEPT !.id = id])
    /\ UNCHANGED << dbDecl, sources, events >>

\* DELETE ... WHERE id = $1 AND status = 'draft'; items, reports and exports cascade.
DelDelete(p) ==
    /\ req[p].pc = "del_delete"
    /\ IF decl.id = req[p].id /\ decl.status = "draft"
       THEN /\ decl' = NoDecl
            /\ items' = NoItems
            /\ reports' = << >>
            /\ xmls' = << >>
       ELSE UNCHANGED << decl, items, reports, xmls >>
    /\ Done(p, "delete", 200)
    /\ UNCHANGED << nextId, sources, events >>

\* PUT /declarations/:id/status: transitionStatus(id, newStatus).
TrFind(p) ==
    /\ CanStart(p)
    /\ \E id \in DeclIds, to \in Statuses :
        IF decl.id # id THEN Done(p, "transition", 404)
        ELSE IF to \notin getAvailableTransitions(decl.status) THEN Done(p, "transition", 409)
        ELSE Go(p, [At(p, "transition", "tr_update") EXCEPT !.id = id, !.to = to])
    /\ UNCHANGED << dbDecl, sources, events >>

TrUpdate(p) ==
    /\ req[p].pc = "tr_update"
    /\ decl' = updateStatus(decl, req[p].id, req[p].to)
    /\ Done(p, "transition", 200)
    /\ UNCHANGED << items, reports, xmls, nextId, sources, events >>

InFlight(op) == Cardinality({ q \in Slots : req[q].op = op /\ Busy(q) })

\* POST /declarations/:id/validate: validate starts with getById: findById ...
ValGet(p) ==
    /\ CanStart(p)
    /\ Len(reports) + InFlight("validate") < MaxReports
    /\ \E id \in DeclIds :
        IF decl.id # id THEN Done(p, "validate", 404)
        ELSE Go(p, [At(p, "validate", "val_items") EXCEPT !.id = id])
    /\ UNCHANGED << dbDecl, sources, events >>

\* ... then getItems(id), and the two checks on the items read.
ValItems(p) ==
    /\ req[p].pc = "val_items"
    /\ LET its == IF decl.id = req[p].id THEN items ELSE NoItems
       IN  IF DOMAIN its = {} THEN Done(p, "validate", 422)
           ELSE IF RequiredFields \ DOMAIN its # {}
                THEN Go(p, [req[p] EXCEPT !.pc = "val_report_bad"])
                ELSE Go(p, [req[p] EXCEPT !.pc = "val_report_ok"])
    /\ UNCHANGED << dbDecl, sources, events >>

\* createValidationReport(id, 'business', false, ...), then the throw (422).
ValReportBad(p) ==
    /\ req[p].pc = "val_report_bad"
    /\ IF decl.id # req[p].id
       THEN /\ Done(p, "validate", 400)
            /\ UNCHANGED reports
       ELSE /\ reports' = Append(reports, [kind |-> "business", is_valid |-> FALSE])
            /\ Done(p, "validate", 422)
    /\ UNCHANGED << decl, items, xmls, nextId, sources, events >>

\* createValidationReport(id, 'business', true, ...)
ValReportOk(p) ==
    /\ req[p].pc = "val_report_ok"
    /\ IF decl.id # req[p].id
       THEN /\ Done(p, "validate", 400)
            /\ UNCHANGED reports
       ELSE /\ reports' = Append(reports, [kind |-> "business", is_valid |-> TRUE])
            /\ Go(p, [req[p] EXCEPT !.pc = "val_status"])
    /\ UNCHANGED << decl, items, xmls, nextId, sources, events >>

\* updateStatus(id, 'validated')
ValStatus(p) ==
    /\ req[p].pc = "val_status"
    /\ decl' = updateStatus(decl, req[p].id, "validated")
    /\ Done(p, "validate", 200)
    /\ UNCHANGED << items, reports, xmls, nextId, sources, events >>

\* seed.sql, xml_field_map of form 270.00: logical_field -> xml_field_name.
XmlFieldMap ==
    LET rows == {
          << "LF_INCOME_PROPERTY_KZ", "field_270_01_A1_1" >>,
          << "LF_INCOME_PROPERTY_FOREIGN", "field_270_01_A1_2" >>,
          << "LF_INCOME_PROPERTY_CAPITAL_CONTRIBUTION", "field_270_01_A2" >>,
          << "LF_INCOME_RENT_NON_AGENT", "field_270_01_A3" >>,
          << "LF_INCOME_ASSIGNMENT_RIGHTS", "field_270_01_A4" >>,
          << "LF_INCOME_IP_OTHER_ASSETS", "field_270_01_A5" >>,
          << "LF_INCOME_PROPERTY_TOTAL", "field_270_01_A" >>,
          << "LF_INCOME_FOREIGN_EMPLOYMENT", "field_270_01_B1_1" >>,
          << "LF_INCOME_FOREIGN_GPC", "field_270_01_B1_2" >>,
          << "LF_INCOME_FOREIGN_WIN", "field_270_01_B1_3" >>,
          << "LF_INCOME_FOREIGN_DIVIDENDS", "field_270_01_B1_4" >>,
          << "LF_INCOME_FOREIGN_INTEREST", "field_270_01_B1_5" >>,
          << "LF_INCOME_FOREIGN_SCHOLARSHIP", "field_270_01_B1_6" >>,
          << "LF_INCOME_FOREIGN_INSURANCE", "field_270_01_B1_7" >>,
          << "LF_INCOME_FOREIGN_PENSION", "field_270_01_B1_8" >>,
          << "LF_INCOME_FOREIGN_OTHER", "field_270_01_B1_9" >>,
          << "LF_INCOME_FOREIGN_TOTAL", "field_270_01_B1" >>,
          << "LF_INCOME_DOMESTIC_HELPERS", "field_270_01_B2" >>,
          << "LF_INCOME_CITIZENS_GPC", "field_270_01_B3" >>,
          << "LF_INCOME_MEDIATOR", "field_270_01_B4" >>,
          << "LF_INCOME_SUBSIDIARY_FARM", "field_270_01_B5" >>,
          << "LF_INCOME_LABOR_MIGRANT", "field_270_01_B6" >>,
          << "LF_INCOME_OTHER_NON_AGENT", "field_270_01_B7" >>,
          << "LF_INCOME_CFC_PROFIT", "field_270_01_C" >>,
          << "LF_INCOME_TOTAL", "field_270_01_D" >>,
          << "LF_ADJUSTMENT_EXCLUDED_ART_341", "field_270_01_E1" >>,
          << "LF_ADJUSTMENT_EXCLUDED_ART_654", "field_270_01_E2" >>,
          << "LF_ADJUSTMENT_EXCLUDED_TREATY", "field_270_01_E3" >>,
          << "LF_ADJUSTMENT_EXCLUDED_AIFC", "field_270_01_E4" >>,
          << "LF_ADJUSTMENT_TOTAL", "field_270_01_E" >>,
          << "LF_DEDUCTION_STANDARD", "field_270_01_F1" >>,
          << "LF_DEDUCTION_OTHER", "field_270_01_F2" >>,
          << "LF_DEDUCTION_TOTAL", "field_270_01_F" >>,
          << "LF_TAXABLE_INCOME", "field_270_01_G" >>,
          << "LF_IPN_CALCULATED", "field_270_01_H" >>,
          << "LF_FOREIGN_TAX_CREDIT_GENERAL", "field_270_01_I" >>,
          << "LF_FOREIGN_TAX_CREDIT_CFC", "field_270_01_J" >>,
          << "LF_IPN_PAYABLE", "field_270_01_K" >> }
    IN [lf \in { r[1] : r \in rows } |-> (CHOOSE r \in rows : r[1] = lf)[2]]

\* formatMoney: '' for an absent or zero amount, else Math.round(num).toString()
\* as a sequence of characters. Stored amounts are whole numbers here, which
\* Math.round leaves as they are.
formatMoney(value) ==
    LET digit == << "0", "1", "2", "3", "4", "5", "6", "7", "8", "9" >>
        RECURSIVE toString(_)
        toString(n) == IF n < 10 THEN << digit[n + 1] >>
                       ELSE toString(n \div 10) \o << digit[(n % 10) + 1] >>
    IN IF value = 0 THEN << >>
       ELSE IF value < 0 THEN << "-" >> \o toString(0 - value)
       ELSE toString(value)

\* buildForm270_01: the amount fields of page_270_01_01, field name -> content;
\* the name of each field is written out in the builder.
buildForm270_01(itemsObj) ==
    LET rows == {
          << "field_270_01_A", "LF_INCOME_PROPERTY_TOTAL" >>,
          << "field_270_01_A_1", "LF_INCOME_PROPERTY_SALE" >>,
          << "field_270_01_A_1_1", "LF_INCOME_PROPERTY_KZ" >>,
          << "field_270_01_A_1_2", "LF_INCOME_PROPERTY_FOREIGN" >>,
          << "field_270_01_A_2", "LF_INCOME_PROPERTY_CAPITAL_CONTRIBUTION" >>,
          << "field_270_01_A_3", "LF_INCOME_RENT_NON_AGENT" >>,
          << "field_270_01_A_4", "LF_INCOME_ASSIGNMENT_RIGHTS" >>,
          << "field_270_01_A_5", "LF_INCOME_IP_OTHER_ASSETS" >>,
          << "field_270_01_B", "LF_INCOME_OTHER_TOTAL" >>,
          << "field_270_01_B_1", "LF_INCOME_FOREIGN_TOTAL" >>,
          << "field_270_01_B_1_1", "LF_INCOME_FOREIGN_EMPLOYMENT" >>,
          << "field_270_01_B_1_2", "LF_INCOME_FOREIGN_GPC" >>,
          << "field_270_01_B_1_3", "LF_INCOME_FOREIGN_WIN" >>,
          << "field_270_01_B_1_4", "LF_INCOME_FOREIGN_DIVIDENDS" >>,
          << "field_270_01_B_1_5", "LF_INCOME_FOREIGN_INTEREST" >>,
          << "field_270_01_B_1_6", "LF_INCOME_FOREIGN_SCHOLARSHIP" >>,
          << "field_270_01_B_1_7", "LF_INCOME_FOREIGN_INSURANCE" >>,
          << "field_270_01_B_1_8", "LF_INCOME_FOREIGN_PENSION" >>,
          << "field_270_01_B_1_9", "LF_INCOME_FOREIGN_OTHER" >>,
          << "field_270_01_B_2", "LF_INCOME_DOMESTIC_HELPERS" >>,
          << "field_270_01_B_3", "LF_INCOME_CITIZENS_GPC" >>,
          << "field_270_01_B_4", "LF_INCOME_MEDIATOR" >>,
          << "field_270_01_B_5", "LF_INCOME_SUBSIDIARY_FARM" >>,
          << "field_270_01_B_6", "LF_INCOME_LABOR_MIGRANT" >>,
          << "field_270_01_B_7", "LF_INCOME_OTHER_NON_AGENT" >>,
          << "field_270_01_C", "LF_INCOME_CFC_PROFIT" >>,
          << "field_270_01_D", "LF_INCOME_TOTAL" >>,
          << "field_270_01_E", "LF_ADJUSTMENT_TOTAL" >>,
          << "field_270_01_E_1", "LF_ADJUSTMENT_EXCLUDED_ART_341" >>,
          << "field_270_01_E_2", "LF_ADJUSTMENT_EXCLUDED_ART_654" >>,
          << "field_270_01_E_3", "LF_ADJUSTMENT_EXCLUDED_TREATY" >>,
          << "field_270_01_E_4", "LF_ADJUSTMENT_EXCLUDED_AIFC" >>,
          << "field_270_01_F", "LF_DEDUCTION_TOTAL" >>,
          << "field_270_01_F_1", "LF_DEDUCTION_STANDARD" >>,
          << "field_270_01_F_2", "LF_DEDUCTION_OTHER" >>,
          << "field_270_01_G", "LF_TAXABLE_INCOME" >>,
          << "field_270_01_H", "LF_IPN_CALCULATED" >>,
          << "field_270_01_I", "LF_FOREIGN_TAX_CREDIT_GENERAL" >>,
          << "field_270_01_J", "LF_FOREIGN_TAX_CREDIT_CFC" >>,
          << "field_270_01_K", "LF_IPN_PAYABLE" >> }
    IN [name \in { r[1] : r \in rows } |->
            formatMoney(Get(itemsObj, (CHOOSE r \in rows : r[1] = name)[2]))]

\* ------------------------------------------------------ xmlGenerator.service
\* POST /xml/generate/:declarationId: findById and the status check.
XmlFind(p) ==
    /\ CanStart(p)
    /\ Len(xmls) + InFlight("project_xml") < MaxXml
    /\ \E id \in DeclIds :
        IF decl.id # id THEN Done(p, "project_xml", 404)
        ELSE IF decl.status = "draft" THEN Done(p, "project_xml", 422)
        ELSE Go(p, [At(p, "project_xml", "xml_items") EXCEPT
                        !.id = id,
                        !.doc = [NoContent EXCEPT !.flags = decl.flags, !.hdr = decl.hdr,
                                                  !.kind = decl.kind]])
    /\ UNCHANGED << dbDecl, sources, events >>

\* getItemsAsObject(id), then buildXml and the hash: doc is what the bytes depend
\* on, the day new Date() falls on (accept_date, submit_date) included.
XmlItems(p) ==
    /\ req[p].pc = "xml_items"
    /\ \E now \in Days :
        LET itemsObj == IF decl.id = req[p].id THEN getItemsAsObject(items) ELSE EmptyMap
        IN Go(p, [req[p] EXCEPT !.pc = "xml_version",
                     !.doc.items = itemsObj,
                     !.doc.form01 = buildForm270_01(itemsObj),
                     !.doc.date = now])
    /\ UNCHANGED << dbDecl, sources, events >>

\* getNextVersion: SELECT COUNT(*) + 1
getNextVersion(id) == IF decl.id = id THEN Len(xmls) + 1 ELSE 1

XmlVersion(p) ==
    /\ req[p].pc = "xml_version"
    /\ Go(p, [req[p] EXCEPT !.pc = "xml_save", !.ver = getNextVersion(req[p].id)])
    /\ UNCHANGED << dbDecl, sources, events >>

\* saveGeneratedXml: INSERT INTO xml_exports
XmlSave(p) ==
    /\ req[p].pc = "xml_save"
    /\ IF decl.id # req[p].id
       THEN /\ Done(p, "project_xml", 400)
            /\ UNCHANGED xmls
       ELSE /\ xmls' = Append(xmls, [version |-> req[p].ver, doc |-> req[p].doc])
            /\ Done(p, "project_xml", 200)
    /\ UNCHANGED << decl, items, reports, nextId, sources, events >>

\* ------------------------------------------------------- ruleEngine.service
\* POST /rules/run and /rules/recalculate: runEngine with persist. Without
\* allowEmpty (run) an empty event set throws before run().
PerRun(p) ==
    /\ CanStart(p)
    /\ \E m \in MappedInputs, allowEmpty \in BOOLEAN :
        IF m = EmptyMap /\ ~allowEmpty
        THEN Done(p, "run_engine", 500)
        ELSE Go(p, [At(p, "run_engine", "per_find") EXCEPT !.rs = runFromMapped(m)])
    /\ UNCHANGED << dbDecl, sources, events >>

\* getOrCreateDeclaration: SELECT by (identity, year, form) ...
PerFind(p) ==
    /\ req[p].pc = "per_find"
    /\ IF decl.id # 0
       THEN Go(p, [req[p] EXCEPT !.pc = "per_delete", !.id = decl.id])
       ELSE Go(p, [req[p] EXCEPT !.pc = "per_insert"])
    /\ UNCHANGED << dbDecl, sources, events >>

\* ... else INSERT (kind defaults to main)
PerInsert(p) ==
    /\ req[p].pc = "per_insert"
    /\ IF decl.id # 0
       THEN /\ Done(p, "run_engine", 409)
            /\ UNCHANGED dbDecl
       ELSE /\ nextId <= MaxDeclId
            /\ InsertDecl("main")
            /\ Go(p, [req[p] EXCEPT !.pc = "per_delete", !.id = nextId])
    /\ UNCHANGED << sources, events >>

\* persistResults step 3: the entries with value !== 0 and !== null.
PersistEntries(fieldValues) == { k \in DOMAIN fieldValues : fieldValues[k] # 0 }

bulkUpsertDeclarationItems(its, fieldValues) ==
    [k \in (DOMAIN its) \cup PersistEntries(fieldValues) |->
        IF k \in PersistEntries(fieldValues)
        THEN [value |-> fieldValues[k], source |-> "rule_engine"]
        ELSE its[k]]

PerAfterUpsert(r) == IF DOMAIN r.flags # {} THEN "per_flags" ELSE "per_header"

\* deleteDeclarationItems(declaration.id)
PerDelete(p) ==
    /\ req[p].pc = "per_delete"
    /\ items' = IF decl.id = req[p].id THEN NoItems ELSE items
    /\ Go(p, [req[p] EXCEPT !.pc = IF PersistEntries(req[p].rs.fieldValues) # {}
                                   THEN "per_upsert" ELSE PerAfterUpsert(req[p].rs)])
    /\ UNCHANGED << decl, reports, xmls, nextId, sources, events >>

PerUpsert(p) ==
    /\ req[p].pc = "per_upsert"
    /\ IF decl.id # req[p].id
       THEN /\ Done(p, "run_engine", 400)
            /\ UNCHANGED items
       ELSE /\ items' = bulkUpsertDeclarationItems(items, req[p].rs.fieldValues)
            /\ Go(p, [req[p] EXCEPT !.pc = PerAfterUpsert(req[p].rs)])
    /\ UNCHANGED << decl, reports, xmls, nextId, sources, events >>

\* updateDeclarationFlags(id, flags)
PerFlags(p) ==
    /\ req[p].pc = "per_flags"
    /\ decl' = IF decl.id = req[p].id
               THEN [decl EXCEPT !.flags = MergeFlags(decl.flags, req[p].rs.flags)]
               ELSE decl
    /\ Go(p, [req[p] EXCEPT !.pc = "per_header"])
    /\ UNCHANGED << items, reports, xmls, nextId, sources, events >>

\* setDeclarationHeader(id, person): the identity's values replace the header.
PerHeader(p) ==
    /\ req[p].pc = "per_header"
    /\ decl' = IF decl.id = req[p].id THEN [decl EXCEPT !.hdr = 0] ELSE decl
    /\ Done(p, "run_engine", 200)
    /\ UNCHANGED << items, reports, xmls, nextId, sources, events >>

\* --------------------------------------------------------- sources.service
\* generateChecksum: JSON.stringify(payload, Object.keys(payload).sort()) hashed
\* with SHA-256. The array replacer keeps, at every depth, only the properties
\* named by a top-level key; the hash is taken as injective on that string.
TopKeys(payload) ==
    (DOMAIN payload.scalars) \cup (DOMAIN payload.objects)
        \cup (IF payload.events # << >> THEN {"events"} ELSE {})

Whitelisted(obj, keys) == [k \in (DOMAIN obj) \cap keys |-> obj[k]]

generateChecksum(payload) ==
    [scalars |-> payload.scalars,
     objects |-> [k \in DOMAIN payload.objects |->
                     Whitelisted(payload.objects[k], TopKeys(payload))],
     events |-> [i \in 1 .. Len(payload.events) |->
                     Whitelisted(payload.events[i], TopKeys(payload))]]

\* One entry of a manual payload's events array.
EventData(type, date, amount) == [event_type |-> type, date |-> date, amount |-> amount]

\* Two events of one day; one event of a type outside the catalog after a good
\* one; one event without a date after a good one.
GoodEvents ==
    << EventData("EV_FOREIGN_DIVIDENDS", "2024-03-01", 50),
       EventData("EV_PROPERTY_SALE_KZ", "2024-03-01", 20) >>

UnlistedEvents ==
    << EventData("EV_FOREIGN_DIVIDENDS", "2024-03-01", 50),
       EventData("EV_UNLISTED", "2024-04-01", 20) >>

UndatedEvents ==
    << EventData("EV_FOREIGN_DIVIDENDS", "2024-03-01", 50),
       EventData("EV_PROPERTY_SALE_KZ", "", 20) >>

Payloads ==
    { [scalars |-> [k \in {"amount"} |-> 100], objects |-> EmptyMap, events |-> << >>],
      [scalars |-> [k \in {"amount"} |-> 200], objects |-> EmptyMap, events |-> << >>],
      [scalars |-> [k \in {"amount"} |-> 100],
       objects |-> [k \in {"meta"} |-> [n \in {"note"} |-> 1]], events |-> << >>],
      [scalars |-> [k \in {"amount"} |-> 100],
       objects |-> [k \in {"meta"} |-> [n \in {"note"} |-> 2]], events |-> << >>],
      [scalars |-> EmptyMap, objects |-> EmptyMap, events |-> GoodEvents],
      [scalars |-> EmptyMap, objects |-> EmptyMap, events |-> UnlistedEvents],
      [scalars |-> EmptyMap, objects |-> EmptyMap, events |-> UndatedEvents] }

\* "" is a request without external_id.
ExternalIds == {"", "ext-1"}

findByChecksum(checksum) == { i \in 1 .. Len(sources) : sources[i].checksum = checksum }

findByExternalId(externalId) ==
    { i \in 1 .. Len(sources) : sources[i].external_id = externalId }

\* POST /sources/:taxIdentityId: importRecord for one taxpayer, a valid source
\* type and an object payload. The checksum lookup and its throw.
ImportFind(p) ==
    /\ CanStart(p)
    /\ Len(sources) + InFlight("importRecord") < MaxSources
    /\ \E payload \in Payloads, externalId \in ExternalIds :
        LET r == [At(p, "importRecord", "import_create") EXCEPT
                      !.payload = payload, !.externalId = externalId]
            found == findByChecksum(generateChecksum(payload))
        IN  IF found # {}
            THEN \E existing \in found :
                    Go(p, [r EXCEPT !.pc = "done", !.code = 500, !.existing = existing])
            ELSE IF externalId # ""
                 THEN Go(p, [r EXCEPT !.pc = "import_external"])
                 ELSE Go(p, r)
    /\ UNCHANGED << dbDecl, sources, events >>

\* findByExternalId and its throw.
ImportExternal(p) ==
    /\ req[p].pc = "import_external"
    /\ IF findByExternalId(req[p].externalId) # {}
       THEN Go(p, [req[p] EXCEPT !.pc = "done", !.code = 500])
       ELSE Go(p, [req[p] EXCEPT !.pc = "import_create"])
    /\ UNCHANGED << dbDecl, sources, events >>

\* sourcesRepository.create: INSERT INTO source_records; no unique index on
\* (tax_identity_id, checksum) or on external_id.
ImportCreate(p) ==
    /\ req[p].pc = "import_create"
    /\ sources' = Append(sources, [id |-> Len(sources) + 1,
                                   checksum |-> generateChecksum(req[p].payload),
                                   raw_payload |-> req[p].payload,
                                   external_id |-> req[p].externalId,
                                   is_active |-> TRUE])
    /\ Go(p, [req[p] EXCEPT !.pc = "done", !.code = 201, !.record = Len(sources) + 1])
    /\ UNCHANGED << dbDecl, events >>

\* ------------------------------------------------------- taxEvents.service
\* tax_event_types: the catalog of event type codes.
EventTypes == {"EV_FOREIGN_DIVIDENDS", "EV_PROPERTY_SALE_KZ"}

SourceIds == 1 .. MaxSources

\* ManualParser.parseEvent: throws without event_type or without a date; a
\* falsy amount becomes null (0 here).
parseEvent(data, sourceRecordId) ==
    [sourceRecordId |-> sourceRecordId, eventType |-> data.event_type,
     eventDate |-> data.date, amount |-> data.amount]

\* A parser that drops the entries it cannot read instead of throwing.
parseLenient(sourceRecord) ==
    LET data == sourceRecord.raw_payload.events
        good == SelectSeq(data, LAMBDA d : d.event_type # "" /\ d.date # "")
    IN  [ok |-> Len(good) > 0,
         events |-> [i \in 1 .. Len(good) |-> parseEvent(good[i], sourceRecord.id)]]

\* taxEventsParser.parse for a manual source record: ManualParser.parse over
\* payload.events, then validateEvent on every event. ok is FALSE when it throws.
parse(sourceRecord) ==
    LET data == sourceRecord.raw_payload.events
        ok == /\ Len(data) > 0
              /\ \A i \in 1 .. Len(data) : data[i].event_type # "" /\ data[i].date # ""
    IN  [ok |-> ok,
         events |-> IF ok THEN [i \in 1 .. Len(data) |-> parseEvent(data[i], sourceRecord.id)]
                    ELSE << >>]

\* The rows of tax_events with source_record_id = sourceRecordId.
EventsOf(sourceRecordId) ==
    { i \in 1 .. Len(events) : events[i].sourceRecordId = sourceRecordId }

\* The idempotency check left out.
existsNever(sourceRecordId) == FALSE

existsBySourceRecord(sourceRecordId) == EventsOf(sourceRecordId) # {}

eventTypeExists(code) == code \in EventTypes

\* A delete that removes nothing.
deleteNothing(evs, sourceRecordId) == evs

\* DELETE FROM tax_events WHERE source_record_id = $1
deleteBySourceRecord(evs, sourceRecordId) ==
    SelectSeq(evs, LAMBDA e : e.sourceRecordId # sourceRecordId)

\* POST /tax-events/parse/:sourceRecordId: getWithPayload and the is_active check.
ParseGet(p) ==
    /\ CanStart(p)
    /\ \E id \in SourceIds :
        IF id > Len(sources) THEN Done(p, "parse", 404)
        ELSE IF ~sources[id].is_active THEN Done(p, "parse", 500)
        ELSE Go(p, [At(p, "parse", "parse_exists") EXCEPT !.record = id])
    /\ UNCHANGED << dbDecl, sources, events >>

\* The idempotency check; without events the parser runs on the record read.
ParseExists(p) ==
    /\ req[p].pc = "parse_exists"
    /\ IF existsBySourceRecord(req[p].record)
       THEN Go(p, [req[p] EXCEPT !.pc = "parse_list"])
       ELSE LET r == parse(sources[req[p].record])
            IN  IF r.ok
                THEN Go(p, [req[p] EXCEPT !.pc = "parse_types", !.parsed = r.events])
                ELSE Done(p, req[p].op, 400)
    /\ UNCHANGED << dbDecl, sources, events >>

\* findBySourceRecord and the short-circuit result.
ParseList(p) ==
    /\ req[p].pc = "parse_list"
    /\ Go(p, [req[p] EXCEPT !.pc = "done",
                            !.code = IF req[p].op = "parse" THEN 201 ELSE 200,
                            !.created = 0,
                            !.skipped = Cardinality(EventsOf(req[p].record))])
    /\ UNCHANGED << dbDecl, sources, events >>

\* eventTypeExists for every parsed event; the first unknown type throws.
ParseTypes(p) ==
    /\ req[p].pc = "parse_types"
    /\ IF \A i \in 1 .. Len(req[p].parsed) : eventTypeExists(req[p].parsed[i].eventType)
       THEN Go(p, [req[p] EXCEPT !.pc = "parse_insert"])
       ELSE Done(p, req[p].op, 500)
    /\ UNCHANGED << dbDecl, sources, events >>

\* bulkInsert: BEGIN, one INSERT per event, COMMIT.
ParseInsert(p) ==
    /\ req[p].pc = "parse_insert"
    /\ events' = events \o req[p].parsed
    /\ Go(p, [req[p] EXCEPT !.pc = "done",
                            !.code = IF req[p].op = "parse" THEN 201 ELSE 200,
                            !.created = Len(req[p].parsed), !.skipped = 0])
    /\ UNCHANGED << dbDecl, sources >>

\* POST /tax-events/reparse/:sourceRecordId: getWithPayload.
ReparseGet(p) ==
    /\ CanStart(p)
    /\ \E id \in SourceIds :
        IF id > Len(sources) THEN Done(p, "reparse", 404)
        ELSE Go(p, [At(p, "reparse", "reparse_delete") EXCEPT !.record = id])
    /\ UNCHANGED << dbDecl, sources, events >>

\* deleteBySourceRecord
ReparseDelete(p) ==
    /\ req[p].pc = "reparse_delete"
    /\ events' = deleteBySourceRecord(events, req[p].record)
    /\ Go(p, [req[p] EXCEPT !.pc = "reparse_get",
                            !.deleted = Cardinality(EventsOf(req[p].record))])
    /\ UNCHANGED << dbDecl, sources >>

\* this.parseSourceRecord: getWithPayload and the is_active check again.
ReparseParse(p) ==
    /\ req[p].pc = "reparse_get"
    /\ IF ~sources[req[p].record].is_active
       THEN Done(p, "reparse", 500)
       ELSE Go(p, [req[p] EXCEPT !.pc = "parse_exists"])
    /\ UNCHANGED << dbDecl, sources, events >>

\* ------------------------------------------------------------ rule engine
\* The conditions of a rule. shape is "none" (NULL), "always" ({"always":
\* true}), "single" ({field, op, value}), "compact" ({field: {op: value}}) or
\* "other" (an object of none of these shapes, such as {"event_type": "EV_X"});
\* value is the string and num the number a condition compares with.
NoConditions == [shape |-> "none", field |-> "", op |-> "", value |-> "", num |-> 0]

\* The seeded compact condition {"event_type": {"=": T}}.
EventTypeIs(T) ==
    [NoConditions EXCEPT !.shape = "compact", !.field = "event_type", !.op = "=", !.value = T]

\* A row of tax_rules. actions is the rule's one action; a key the action does
\* not carry is "" (set: << >>).
Rule(id, type, conditions, action) ==
    [id |-> id, rule_type |-> type, conditions |-> conditions, actions |-> action]

\* A formula of a calc action. kind is "none" (no formula key), "num" (a JSON
\* number), "ref" ({ref}), "op" ({op, a, b} with args = << a, b >>, or {op,
\* refs}) or "text" (a JSON string such as "SUM(LF_A, LF_B)", whose operator
\* and field names are kept in op and refs).
NoFormula ==
    [kind |-> "none", num |-> 0, ref |-> "", op |-> "", refs |-> << >>, args |-> << >>]

MapAction(logical_field) ==
    [type |-> "map", logical_field |-> logical_field, target |-> "", formula |-> NoFormula,
     set |-> << >>]

CalcAction(target, formula) ==
    [type |-> "calc", logical_field |-> "", target |-> target, formula |-> formula,
     set |-> << >>]

FlagAction(set) ==
    [type |-> "flag", logical_field |-> "", target |-> "", formula |-> NoFormula,
     set |-> set]

\* formulaEvaluator.evaluate with evaluateOperation for sum, sub and mul. A
\* string has neither .ref nor .op, so a text formula evaluates to 0.
RECURSIVE evaluateFormula(_, _)
evaluateFormula(formula, fieldValues) ==
    CASE formula.kind = "num" -> formula.num
      [] formula.kind = "ref" -> Get(fieldValues, formula.ref)
      [] formula.kind = "op" ->
            LET a == IF Len(formula.args) >= 1
                     THEN evaluateFormula(formula.args[1], fieldValues) ELSE 0
                b == IF Len(formula.args) >= 2
                     THEN evaluateFormula(formula.args[2], fieldValues) ELSE 0
            IN  CASE formula.op = "sum" ->
                        IF formula.refs # << >> THEN SumCodes(fieldValues, formula.refs, 1)
                        ELSE a + b
                  [] formula.op = "sub" -> a - b
                  [] formula.op = "mul" -> a * b
                  [] OTHER -> 0
      [] OTHER -> 0

\* The two seeded mapping rules that match the modelled event types.
SeedRules ==
    << Rule(1, "mapping", EventTypeIs("EV_PROPERTY_SALE_KZ"), MapAction("LF_INCOME_PROPERTY_KZ")),
       Rule(2, "mapping", EventTypeIs("EV_FOREIGN_DIVIDENDS"), MapAction("LF_INCOME_FOREIGN_DIVIDENDS")) >>

\* Rule tables an administrator can store, in the order getActiveRules returns
\* them: the seed alone, and the seed followed by one more rule: a mapping
\* without logical_field, an inline flag without set, an exclusion, a flag rule
\* with and without set, a flag rule that sets has_cfc, and calculation rules:
\* without target, without formula, and with a ref, a structured sum, a text
\* SUM, a structured sub, a text SUB and a structured mul formula; an exclusion
\* and a flag rule whose condition uses the operator "~", which no evaluator
\* knows, an exclusion and a flag rule whose conditions have none of the
\* accepted shapes, and a flag rule on a CFC profit above 0.
RuleSets ==
    LET Ref(f) == [NoFormula EXCEPT !.kind = "ref", !.ref = f]
        Num(n) == [NoFormula EXCEPT !.kind = "num", !.num = n]
        Op(op, a, b) == [NoFormula EXCEPT !.kind = "op", !.op = op, !.args = << a, b >>]
        Sum(refs) == [NoFormula EXCEPT !.kind = "op", !.op = "sum", !.refs = refs]
        Text(op, refs) == [NoFormula EXCEPT !.kind = "text", !.op = op, !.refs = refs]
        kz == "LF_INCOME_PROPERTY_KZ"
        div == "LF_INCOME_FOREIGN_DIVIDENDS"
        With(rule) == Append(SeedRules, rule)
        Calc(target, formula) ==
            With(Rule(3, "calculation", NoConditions, CalcAction(target, formula)))
        Single(field, op, value, num) ==
            [shape |-> "single", field |-> field, op |-> op, value |-> value, num |-> num]
        kzSale == "EV_PROPERTY_SALE_KZ"
        pril3 == FlagAction(<< [k \in {"pril_3"} |-> TRUE] >>)
    IN  { SeedRules,
          With(Rule(3, "mapping", NoConditions, MapAction(""))),
          With(Rule(3, "mapping", EventTypeIs("EV_FOREIGN_DIVIDENDS"), FlagAction(<< >>))),
          With(Rule(3, "exclusion", EventTypeIs("EV_PROPERTY_SALE_KZ"), MapAction(""))),
          With(Rule(3, "exclusion", Single("event.event_type", "~", kzSale, 0), MapAction(""))),
          With(Rule(3, "exclusion", [NoConditions EXCEPT !.shape = "other"], MapAction(""))),
          With(Rule(3, "flag", NoConditions, FlagAction(<< [k \in {"pril_1"} |-> TRUE] >>))),
          With(Rule(3, "flag", NoConditions, FlagAction(<< [k \in {"has_cfc"} |-> TRUE] >>))),
          With(Rule(3, "flag", NoConditions, FlagAction(<< >>))),
          With(Rule(3, "flag", Single("LF_INCOME_CFC_PROFIT", ">", "", 0), pril3)),
          With(Rule(3, "flag", Single("LF_INCOME_CFC_PROFIT", "~", "", 0), pril3)),
          With(Rule(3, "flag", [NoConditions EXCEPT !.shape = "other"], pril3)),
          Calc("", Ref("LF_INCOME_TOTAL")),
          Calc("LF_DEDUCTION_STANDARD", NoFormula),
          Calc("LF_DEDUCTION_STANDARD", Ref(kz)),
          Calc("LF_DEDUCTION_OTHER", Sum(<< kz, div >>)),
          Calc("LF_DEDUCTION_OTHER", Text("SUM", << kz, div >>)),
          Calc("LF_TAXABLE_INCOME", Op("sub", Ref(kz), Ref(div))),
          Calc("LF_TAXABLE_INCOME", Text("SUB", << kz, div >>)),
          Calc("LF_IPN_CALCULATED", Op("mul", Ref(div), Num(2))),
          Calc("LF_IPN_PAYABLE", Op("sub", Ref(kz), Ref(div))) }

\* conditionEvaluator.evaluateSingle with getFieldValue, for the operators and
\* the event fields the rule tables use; an operator outside the switch gives
\* false.
evaluateSingle(condition, event) ==
    LET fieldValue == IF condition.field = "event.event_type" THEN event.event_type ELSE ""
    IN  CASE condition.op \in {"=", "eq"} -> fieldValue = condition.value
          [] condition.op \in {"!=", "neq"} -> fieldValue # condition.value
          [] condition.op = "exists" -> fieldValue # ""
          [] condition.op = "not_exists" -> fieldValue = ""
          [] OTHER -> FALSE

\* conditionEvaluator.evaluate: no conditions and {"always": true} match, the
\* single and the compact shape go to evaluateSingle, and whatever is left
\* reaches the final return true.
evaluate(conditions, event) ==
    CASE conditions.shape \in {"none", "always"} -> TRUE
      [] conditions.shape = "single" /\ conditions.field # "" /\ conditions.op # "" ->
            evaluateSingle(conditions, event)
      [] conditions.shape = "compact" ->
            evaluateSingle([conditions EXCEPT !.field = "event." \o @], event)
      [] OTHER -> TRUE

\* The engine context; threw is TRUE once an exception has left the phase loop.
NewContext ==
    [fieldValues |-> EmptyMap, mappings |-> << >>, flags |-> EmptyMap,
     errors |-> << >>, threw |-> FALSE]

\* Phase 1: the ids of the events some exclusion rule matches.
applyExclusions(rows, rules) ==
    { rows[i].id : i \in { n \in 1 .. Len(rows) :
                            \E j \in 1 .. Len(rules) : evaluate(rules[j].conditions, rows[n]) } }

\* The try block of applyMappings for one (event, rule) and its catch: a map
\* action without logical_field and a flag action without set throw, and the
\* catch records (ruleId, eventId).
applyRule(ctx, event, rule) ==
    LET action == rule.actions
        caught == [ctx EXCEPT !.errors = Append(@, [ruleId |-> rule.id, eventId |-> event.id])]
    IN  IF ~evaluate(rule.conditions, event) THEN ctx
        ELSE CASE action.type = "map" ->
                    IF action.logical_field = "" THEN caught
                    ELSE [ctx EXCEPT
                            !.fieldValues = Put(@, action.logical_field,
                                                Get(@, action.logical_field) + event.amount),
                            !.mappings = Append(@, [taxEventId |-> event.id,
                                                    logicalField |-> action.logical_field,
                                                    amount |-> event.amount,
                                                    ruleId |-> rule.id])]
               [] action.type = "flag" ->
                    IF action.set = << >> THEN caught
                    ELSE [ctx EXCEPT !.flags = MergeFlags(@, action.set[1])]
               [] OTHER -> ctx

\* A mapping phase that does not look at the excluded ids.
RECURSIVE mapEveryEvent(_, _, _, _, _)
mapEveryEvent(rows, rules, excluded, ctx, k) ==
    IF k > Len(rows) * Len(rules) THEN ctx
    ELSE mapEveryEvent(rows, rules, excluded,
                       applyRule(ctx, rows[((k - 1) \div Len(rules)) + 1],
                                 rules[((k - 1) % Len(rules)) + 1]),
                       k + 1)

\* Phase 2: events in the order given, rules in the order given; k counts the
\* (event, rule) pairs already visited.
RECURSIVE applyMappings(_, _, _, _, _)
applyMappings(rows, rules, excluded, ctx, k) ==
    IF k > Len(rows) * Len(rules) THEN ctx
    ELSE LET event == rows[((k - 1) \div Len(rules)) + 1]
             rule == rules[((k - 1) % Len(rules)) + 1]
         IN  applyMappings(rows, rules, excluded,
                           IF event.id \in excluded THEN ctx ELSE applyRule(ctx, event, rule),
                           k + 1)

\* calculationHandler.handle: throws without target or formula; else stores
\* the formula's value under target (no round, min or max key in the action).
handleCalc(action, rule, ctx) ==
    IF action.type # "calc" THEN ctx
    ELSE IF action.target = "" \/ action.formula.kind = "none"
    THEN [ctx EXCEPT !.threw = TRUE]
    ELSE [ctx EXCEPT !.fieldValues =
                        Put(@, action.target, evaluateFormula(action.formula, @))]

\* Phase 4: calculationHandler.processAll; nothing catches what handle throws.
RECURSIVE processAll(_, _, _)
processAll(rules, ctx, k) ==
    IF k > Len(rules) \/ ctx.threw THEN ctx
    ELSE processAll(rules, handleCalc(rules[k].actions, rules[k], ctx), k + 1)

\* flagHandler.handle: throws without a set object.
handleFlag(action, rule, ctx) ==
    IF action.type # "flag" THEN ctx
    ELSE IF action.set = << >> THEN [ctx EXCEPT !.threw = TRUE]
    ELSE [ctx EXCEPT !.flags = MergeFlags(@, action.set[1])]

\* flagHandler.evaluateSingleFlagCondition: a field that is no logical field
\* reference passes, and so does an operator outside the switch.
evaluateSingleFlagCondition(condition, ctx) ==
    LET field == IF condition.shape = "single" THEN condition.field ELSE ""
        op == IF condition.shape = "single" THEN condition.op ELSE ""
        fieldValue == Get(ctx.fieldValues, field)
    IN  IF field \notin {"LF_INCOME_TOTAL", "LF_INCOME_FOREIGN_TOTAL", "LF_INCOME_CFC_PROFIT"}
        THEN TRUE
        ELSE CASE op \in {">", "gt"} -> fieldValue > condition.num
               [] op \in {">=", "gte"} -> fieldValue >= condition.num
               [] op \in {"<", "lt"} -> fieldValue < condition.num
               [] op \in {"<=", "lte"} -> fieldValue <= condition.num
               [] op \in {"=", "eq"} -> fieldValue = condition.num
               [] op \in {"!=", "neq"} -> fieldValue # condition.num
               [] op = "exists" -> fieldValue > 0
               [] OTHER -> TRUE

\* flagHandler.evaluateFlagConditions for conditions that are no all/any list.
evaluateFlagConditions(conditions, ctx) ==
    conditions.shape = "none" \/ evaluateSingleFlagCondition(conditions, ctx)

\* Phase 6: flagHandler.processConditionalFlags; a rule whose conditions do not
\* match the field values is skipped.
RECURSIVE processConditionalFlags(_, _, _)
processConditionalFlags(rules, ctx, k) ==
    IF k > Len(rules) \/ ctx.threw THEN ctx
    ELSE IF ~evaluateFlagConditions(rules[k].conditions, ctx)
    THEN processConditionalFlags(rules, ctx, k + 1)
    ELSE processConditionalFlags(rules, handleFlag(rules[k].actions, rules[k], ctx), k + 1)

RulesOfType(rules, type) == SelectSeq(rules, LAMBDA r : r.rule_type = type)

\* runEngine.run: the seven phases. threw = TRUE in the result stands for the
\* exception leaving run; the other fields are then never returned.
run(rows, rules) ==
    LET excluded == applyExclusions(rows, RulesOfType(rules, "exclusion"))
        c2 == applyMappings(rows, RulesOfType(rules, "mapping"), excluded, NewContext, 1)
        c3 == [c2 EXCEPT !.fieldValues = autoCalculateBaseTotals(@)]
        c4 == processAll(RulesOfType(rules, "calculation"), c3, 1)
        c5 == [c4 EXCEPT !.fieldValues = autoCalculateDerivedFields(@)]
        c6 == processConditionalFlags(RulesOfType(rules, "flag"), c5, 1)
    IN  [c6 EXCEPT !.flags = autoSetFlags(c6.fieldValues, @)]

\* event_date as a number, for ORDER BY.
DateRank(date) == IF date = "2024-03-01" THEN 1 ELSE 2

\* The stored events as rows: id is the row's place in the table.
EventRow(i) ==
    [id |-> i, event_type |-> events[i].eventType, event_date |-> events[i].eventDate,
     amount |-> events[i].amount]

\* getTaxEventsForEngine: every row, ORDER BY event_date. Rows of one date come
\* in an order the database is free to choose.
getTaxEventsForEngine ==
    LET n == Len(events)
        perms == { f \in [1 .. n -> 1 .. n] : \A i, j \in 1 .. n : i # j => f[i] # f[j] }
        sorted(f) == \A i \in 1 .. n - 1 :
                        DateRank(events[f[i]].eventDate) <= DateRank(events[f[i + 1]].eventDate)
    IN  { [i \in 1 .. n |-> EventRow(f[i])] : f \in { g \in perms : sorted(g) } }

\* GET /rules/preview/:taxIdentityId/:taxYear (persist false, allowEmpty
\* true): getTaxEventsForEngine.
PrevEvents(p) ==
    /\ CanStart(p)
    /\ \E rows \in getTaxEventsForEngine :
        Go(p, [At(p, "preview_engine", "prev_rules") EXCEPT !.rows = rows])
    /\ UNCHANGED << dbDecl, sources, events >>

\* preview: getActiveRules, runEngine.run and the response; an exception out
\* of run goes to the error middleware, which answers 500.
PrevRules(p) ==
    /\ req[p].pc = "prev_rules"
    /\ \E rules \in RuleSets :
        LET result == run(req[p].rows, rules)
        IN  IF result.threw
            THEN Go(p, [req[p] EXCEPT !.pc = "done", !.code = 500, !.rules = rules])
            ELSE Go(p, [req[p] EXCEPT !.pc = "done", !.code = 200, !.rules = rules,
                           !.rs = [fieldValues |-> result.fieldValues, flags |-> result.flags],
                           !.mappings = result.mappings, !.errors = result.errors])
    /\ UNCHANGED << dbDecl, sources, events >>

\* ---------------------------------------------------------- sources.service
\* DELETE /sources/record/:id, deactivateRecord: findById; an unknown id throws.
DeactFind(p) ==
    /\ CanStart(p)
    /\ \E id \in SourceIds :
        IF id > Len(sources) THEN Done(p, "deactivate", 500)
        ELSE Go(p, [At(p, "deactivate", "deact_update") EXCEPT !.record = id])
    /\ UNCHANGED << dbDecl, sources, events >>

\* deactivate: UPDATE source_records SET is_active = false WHERE id = $1
DeactUpdate(p) ==
    /\ req[p].pc = "deact_update"
    /\ sources' = [sources EXCEPT ![req[p].record].is_active = FALSE]
    /\ Done(p, "deactivate", 200)
    /\ UNCHANGED << dbDecl, events >>

\* -------------------------------------------------------------- requests
\* A database statement rejects (connection lost, statement timeout) or the
\* request is cancelled: the handler throws at its current await.
Fail(p) ==
    /\ Busy(p)
    /\ Go(p, [req[p] EXCEPT !.pc = "done", !.code = 500])
    /\ UNCHANGED << dbDecl, sources, events >>

\* The response has been sent; the slot is free again.
Respond(p) ==
    /\ req[p].pc = "done"
    /\ Go(p, Idle)
    /\ UNCHANGED << dbDecl, sources, events >>

\* The workflow handlers of declarations.service and ruleEngine.service.
WorkflowStep(p) ==
    \/ CreateFind(p) \/ CreateInsert(p)
    \/ GenGet(p) \/ GenFind(p) \/ GenInsert(p) \/ GenRun(p)
    \/ GenDelete(p) \/ GenUpsert(p) \/ GenFlags(p)
    \/ HdrFind(p) \/ HdrUpdate(p)
    \/ ItemFind(p) \/ ItemUpsert(p) \/ ItemStatus(p)
    \/ DelFind(p) \/ DelDelete(p)
    \/ TrFind(p) \/ TrUpdate(p)
    \/ ValGet(p) \/ ValItems(p) \/ ValReportBad(p) \/ ValReportOk(p) \/ ValStatus(p)
    \/ PerRun(p) \/ PerFind(p) \/ PerInsert(p) \/ PerDelete(p) \/ PerUpsert(p)
    \/ PerFlags(p) \/ PerHeader(p)
    \/ Fail(p) \/ Respond(p)

\* Requests served one at a time: every handler runs to its response before
\* the next request starts.
Next == WorkflowStep(1)

Spec == Init /\ [][Next]_vars

\* ------------------------------------------------- requests in parallel
\* The stored state after create, generate over the foreign-dividend events and
\* validate have been served, one after another, on an empty store.
ValidatedResult == runFromMapped([k \in {"LF_INCOME_FOREIGN_DIVIDENDS"} |-> 50])

ValidatedDb ==
    /\ decl = [id |-> 1, status |-> "validated", kind |-> "main",
               flags |-> ValidatedResult.flags, hdr |-> 0]
    /\ items = bulkUpsertItems(NoItems, ValidatedResult.fieldValues, "rule_engine")
    /\ reports = << [kind |-> "business", is_valid |-> TRUE] >>
    /\ xmls = << >>
    /\ nextId = 2
    /\ sources = << >>
    /\ events = << >>

InitConc == ValidatedDb /\ req = [p \in Slots |-> Idle] /\ quota = MaxParallel

\* The handlers that change or read a stored declaration, interleaved at their
\* awaits. The row exists throughout, so createOrGet never inserts here.
ConcStep(p) ==
    \/ GenGet(p) \/ GenFind(p) \/ GenRun(p) \/ GenDelete(p) \/ GenUpsert(p) \/ GenFlags(p)
    \/ HdrFind(p) \/ HdrUpdate(p)
    \/ ItemFind(p) \/ ItemUpsert(p) \/ ItemStatus(p)
    \/ TrFind(p) \/ TrUpdate(p)
    \/ XmlFind(p) \/ XmlItems(p) \/ XmlVersion(p) \/ XmlSave(p)
    \/ Fail(p) \/ Respond(p)

NextConc == \E p \in Slots : ConcStep(p)

SpecConc == InitConc /\ [][NextConc]_vars

\* ------------------------------------------------------ source ingestion
ImportStep(p) ==
    \/ ImportFind(p) \/ ImportExternal(p) \/ ImportCreate(p)
    \/ Fail(p) \/ Respond(p)

NextImport == \E p \in Slots : ImportStep(p)

SpecImport == Init /\ [][NextImport]_vars

\* --------------------------------------------------- parsing tax events
\* Ingest, parse and reparse served one request at a time.
ParseStep(p) ==
    \/ ImportFind(p) \/ ImportExternal(p) \/ ImportCreate(p)
    \/ ParseGet(p) \/ ParseExists(p) \/ ParseList(p) \/ ParseTypes(p) \/ ParseInsert(p)
    \/ ReparseGet(p) \/ ReparseDelete(p) \/ ReparseParse(p)
    \/ Fail(p) \/ Respond(p)

NextParse == ParseStep(1)

SpecParse == Init /\ [][NextParse]_vars

\* ------------------------------------------------- engine runs in parallel
\* The store after one manual source record with two events of one day has
\* been ingested and parsed; no declaration yet.
ParsedSource ==
    LET payload == [scalars |-> EmptyMap, objects |-> EmptyMap, events |-> GoodEvents]
    IN  [id |-> 1, checksum |-> generateChecksum(payload), raw_payload |-> payload,
         external_id |-> "", is_active |-> TRUE]

ParsedDb ==
    /\ decl = NoDecl
    /\ items = NoItems
    /\ reports = << >>
    /\ xmls = << >>
    /\ nextId = 1
    /\ sources = << ParsedSource >>
    /\ events = parse(ParsedSource).events

InitEngine == ParsedDb /\ req = [p \in Slots |-> Idle] /\ quota = MaxParallel

\* Engine previews over the parsed events, and deactivation of their source.
EngineStep(p) ==
    \/ PrevEvents(p) \/ PrevRules(p)
    \/ DeactFind(p) \/ DeactUpdate(p)
    \/ Fail(p) \/ Respond(p)

NextEngine == \E p \in Slots : EngineStep(p)

SpecEngine == InitEngine /\ [][NextEngine]_vars

\* ------------------------------------------- parse and reparse in parallel
\* The store after one manual source record with two events has been ingested
\* and not yet parsed.
UnparsedDb ==
    /\ decl = NoDecl
    /\ items = NoItems
    /\ reports = << >>
    /\ xmls = << >>
    /\ nextId = 1
    /\ sources = << ParsedSource >>
    /\ events = << >>

InitSource == UnparsedDb /\ req = [p \in Slots |-> Idle] /\ quota = MaxParallel

\* Parse, reparse and deactivate of the record, interleaved at their awaits.
SourceStep(p) ==
    \/ ParseGet(p) \/ ParseExists(p) \/ ParseList(p) \/ ParseTypes(p) \/ ParseInsert(p)
    \/ ReparseGet(p) \/ ReparseDelete(p) \/ ReparseParse(p)
    \/ DeactFind(p) \/ DeactUpdate(p)
    \/ Fail(p) \/ Respond(p)

NextSource == \E p \in Slots : SourceStep(p)

SpecSource == InitSource /\ [][NextSource]_vars

\* ---------------------------------------------- find-or-create in parallel
\* POST /declarations and POST /rules/run served in parallel on an empty store:
\* findOrCreate and getOrCreateDeclaration side by side.
CreateStep(p) ==
    \/ CreateFind(p) \/ CreateInsert(p)
    \/ PerRun(p) \/ PerFind(p) \/ PerInsert(p) \/ PerDelete(p) \/ PerUpsert(p)
    \/ PerFlags(p) \/ PerHeader(p)
    \/ Fail(p) \/ Respond(p)

NextCreate == \E p \in Slots : CreateStep(p)

InitCreate ==
    /\ decl = NoDecl /\ items = NoItems /\ reports = << >> /\ xmls = << >> /\ nextId = 1
    /\ sources = << >> /\ events = << >>
    /\ req = [p \in Slots |-> Idle] /\ quota = MaxParallel

SpecCreate == InitCreate /\ [][NextCreate]_vars

\* ------------------------------------------------------------ properties
\* C1: every change of the stored status of a declaration goes from a state to
\* one of its allowed successors in the transition table, whichever operation
\* makes the change.
C1_StatusFollowsTable ==
    [][ (decl.id # 0 /\ decl'.id = decl.id /\ decl'.status # decl.status)
            => decl'.status \in getAvailableTransitions(decl.status) ]_vars

\* C2: whenever the status changes from draft to validated (by validate or by
\* a transition), the declaration has at least one item and has items for
\* LF_INCOME_TOTAL, LF_TAXABLE_INCOME and LF_IPN_CALCULATED.
C2_ValidatedHasRequiredItems ==
    [][ (decl.id # 0 /\ decl'.id = decl.id
            /\ decl.status = "draft" /\ decl'.status = "validated")
            => (DOMAIN items' # {} /\ RequiredFields \subseteq DOMAIN items') ]_vars

\* C3: while the status is submitted or accepted, no step of any operation
\* changes the header, the items or the flags, or moves the status to a state
\* that is not an allowed successor.
C3_SubmittedIsImmutable ==
    [][ (decl.id # 0 /\ decl.status \in {"submitted", "accepted"})
            => /\ decl'.id = decl.id
               /\ decl'.hdr = decl.hdr
               /\ decl'.flags = decl.flags
               /\ items' = items
               /\ decl'.status \in {decl.status} \cup getAvailableTransitions(decl.status)
      ]_vars

\* C4: generate proceeds only on a draft or validated declaration: a generate
\* request that finds any other status is refused with an error at that step
\* and leaves the items and the flags unchanged.
C4_GenerateOnlyDraftOrValidated ==
    [][ \A p \in Slots :
            (req[p].op = "generate" /\ req[p].pc = "gen_find" /\ req'[p] # req[p]
                /\ FindByKind("main") /\ decl.status \notin {"draft", "validated"})
            => /\ req'[p].pc = "done"
               /\ req'[p].code >= 400
               /\ items' = items
               /\ decl'.flags = decl.flags ]_vars

\* C5: when generate completes successfully on a declaration whose status was
\* validated when generate read it, the stored status is draft.
C5_GenerateDropsToDraft ==
    \A p \in Slots :
        (req[p].op = "generate" /\ req[p].pc = "done" /\ req[p].code = 200
            /\ req[p].st = "validated" /\ decl.id = req[p].id)
        => decl.status = "draft"

\* C6: an update of the header or of an item never moves a declaration that has
\* left validated since the update read it (e.g. to awaiting_consent) back to
\* draft.
C6_UpdateNeverRevertsLaterStatus ==
    [][ \A p \in Slots :
            (req[p].op \in {"updateHeader", "updateItem"} /\ req'[p] # req[p]
                /\ decl.status \notin {"draft", "validated"})
            => decl'.status = decl.status ]_vars

\* C7: a validate that is refused as Unprocessable (422) on a declaration with
\* no items leaves the status draft and has persisted a business
\* ValidationReport with is_valid = false.
C7_NoItemsPersistsInvalidReport ==
    \A p \in Slots :
        (req[p].op = "validate" /\ req[p].pc = "done" /\ req[p].code = 422
            /\ decl.id = req[p].id /\ DOMAIN items = {} /\ decl.status = "draft")
        => \E i \in 1 .. Len(reports) :
                reports[i] = [kind |-> "business", is_valid |-> FALSE]

\* The items stored in ValidatedDb.
ValidatedItems == bulkUpsertItems(NoItems, ValidatedResult.fieldValues, "rule_engine")

\* C8: a generate that fails or is cancelled after it was accepted leaves the
\* items and the flags exactly as they were before the call. Stated for the
\* first request served on the validated declaration, whose state before the
\* call is ValidatedDb.
C8_FailedGenerateLeavesNoTrace ==
    (quota = MaxParallel - 1 /\ req[1].op = "generate"
        /\ req[1].pc = "done" /\ req[1].code = 500)
    => (items = ValidatedItems /\ decl.flags = ValidatedResult.flags)

\* What one generate with engine result r leaves when it runs alone on flags fl.
GenerateAlone(fl, r) ==
    [items |-> getItemsAsObject(bulkUpsertItems(NoItems, r.fieldValues, "rule_engine")),
     flags |-> IF DOMAIN r.flags # {} THEN r.flags ELSE fl]

\* C9: concurrent generate and project_xml are serialized. Stated for one
\* generate and one project_xml served in parallel on the validated
\* declaration, both successful: the export was built either from the content
\* before the generate or from the content after it.
C9_ExportSeesSerialContent ==
    \A g, x \in Slots :
        (quota = MaxParallel - 2
            /\ req[g].op = "generate" /\ req[g].pc = "done" /\ req[g].code = 200
            /\ req[x].op = "project_xml" /\ req[x].pc = "done" /\ req[x].code = 200)
        => \/ /\ req[x].doc.items = getItemsAsObject(ValidatedItems)
              /\ req[x].doc.flags = ValidatedResult.flags
           \/ /\ req[x].doc.items = GenerateAlone(ValidatedResult.flags, req[g].rs).items
              /\ req[x].doc.flags = GenerateAlone(ValidatedResult.flags, req[g].rs).flags

\* C10: an ingest whose payload is already stored for the taxpayer (the
\* checksum lookup found a record) succeeds and returns the id of that record.
C10_SecondIngestReturnsFirstRecord ==
    \A p \in Slots :
        (req[p].op = "importRecord" /\ req[p].pc = "done" /\ req[p].existing # 0)
        => (req[p].code \in {200, 201} /\ req[p].record = req[p].existing)

\* C11: however the ingest calls interleave, a payload of the taxpayer is stored
\* in at most one SourceRecord.
C11_OneRecordPerPayload ==
    \A i, j \in 1 .. Len(sources) :
        sources[i].raw_payload = sources[j].raw_payload => i = j

\* The rows stored for a source record, in insertion order.
StoredFor(sourceRecordId) ==
    SelectSeq(events, LAMBDA e : e.sourceRecordId = sourceRecordId)

\* C12: a parse of a source record that already has events inserts nothing and
\* reports created = 0 and skipped = the number of events stored for the record.
C12_SecondParseInsertsNothing ==
    [][ \A p \in Slots :
            (req[p].op = "parse" /\ req'[p] # req[p] /\ req[p].record # 0
                /\ EventsOf(req[p].record) # {})
            => /\ events' = events
               /\ (req'[p].pc = "done" /\ req'[p].code # 500)
                    => /\ req'[p].code = 201
                       /\ req'[p].created = 0
                       /\ req'[p].skipped = Len(StoredFor(req[p].record)) ]_vars

\* A second parse has answered: nothing created, the two stored events skipped.
C12_Witness ==
    /\ req[1].op = "parse" /\ req[1].pc = "done" /\ req[1].code = 201
    /\ req[1].created = 0 /\ req[1].skipped = 2
    /\ Len(StoredFor(req[1].record)) = 2

\* Every entry of the payload's events array has a type of the catalog and a date.
AllEventsValid(payload) ==
    \A i \in 1 .. Len(payload.events) :
        /\ payload.events[i].event_type \in EventTypes
        /\ payload.events[i].date # ""

C14_ReparseLeavesOneFreshCopy ==
    \A p \in Slots :
        (req[p].op = "reparse" /\ req[p].pc = "done" /\ req[p].code = 200)
        => /\ StoredFor(req[p].record) = parse(sources[req[p].record]).events
           /\ req[p].created = Len(StoredFor(req[p].record))

\* A reparse of a record that had two events has completed.
C14_Witness ==
    /\ req[1].op = "reparse" /\ req[1].pc = "done" /\ req[1].code = 200
    /\ req[1].deleted = 2 /\ req[1].created = 2

\* C15: an engine run whose rule table holds one rule that cannot be evaluated
\* (a calculation without target or formula among them) still completes and
\* answers with a result: no preview that read its rules ends in an error.
C15_RuleErrorNeverFailsRun ==
    \A p \in Slots :
        (req[p].op = "preview_engine" /\ req[p].pc = "done" /\ req[p].rules # << >>)
            => req[p].code = 200

\* C16: two engine runs over the same stored events and the same rules return
\* the same field values, the same flags and the same list of mappings in the
\* same order.
C16_RunsOverSameInputsAgree ==
    \A p, q \in Slots :
        (/\ req[p].op = "preview_engine" /\ req[p].pc = "done" /\ req[p].code = 200
         /\ req[q].op = "preview_engine" /\ req[q].pc = "done" /\ req[q].code = 200
         /\ req[p].rules = req[q].rules)
            => req[p].rs = req[q].rs /\ req[p].mappings = req[q].mappings

\* C17: two XML exports stored for a declaration whose header, kind, flags and
\* items were the same at both projections hold the same bytes, whenever the
\* projections ran.
C17_SameDeclarationSameBytes ==
    \A i, j \in 1 .. Len(xmls) :
        (/\ xmls[i].doc.items = xmls[j].doc.items
         /\ xmls[i].doc.flags = xmls[j].doc.flags
         /\ xmls[i].doc.hdr = xmls[j].doc.hdr
         /\ xmls[i].doc.kind = xmls[j].doc.kind)
            => xmls[i].doc = xmls[j].doc

\* C18: the XML exports stored for the declaration carry the versions 1, 2,
\* 3, ... in creation order, none repeated and none skipped, however the
\* project_xml calls interleave.
C18_VersionsCountUp ==
    \A i \in 1 .. Len(xmls) : xmls[i].version = i

\* C19: whenever an XML export row is inserted, the declaration's stored status
\* at that moment is validated or a later state, never draft.
C19_ExportOnlyWhileValidated ==
    [][Len(xmls') > Len(xmls) => decl.status # "draft"]_vars

\* C20: of two find-or-create calls for the same declaration identity and
\* kind that are served together, neither is answered with a conflict: both
\* succeed.
C20_ParallelCreateBothSucceed ==
    \A p, q \in Slots :
        (/\ p # q
         /\ req[p].op = "create" /\ req[p].pc = "done"
         /\ req[q].op = "create" /\ req[q].pc = "done"
         /\ req[p].kind = req[q].kind)
            => req[p].code # 409 /\ req[q].code # 409

\* C21: when generate_declaration completes, the declaration's items are exactly
\* the ones its engine run produced: nothing written before or during the
\* call, manual items included, is left.
C21_GenerateReplacesAllItems ==
    [][\A p \in Slots :
        (/\ req[p].op = "generate" /\ req[p].pc # "done"
         /\ req'[p].pc = "done" /\ req'[p].code = 200)
            => items' = bulkUpsertItems(NoItems, req[p].rs.fieldValues, "rule_engine")]_vars

\* C22: when generate_declaration completes, the stored flags are the shallow
\* merge of the flags stored before and the flags of the run: keys the run did
\* not produce keep their value, keys it produced take the run's value.
C22_GenerateMergesFlags ==
    [][\A p \in Slots :
        (/\ req[p].op = "generate" /\ req[p].pc # "done"
         /\ req'[p].pc = "done" /\ req'[p].code = 200)
            => decl'.flags = MergeFlags(decl.flags, req[p].rs.flags)]_vars

\* The ids the exclusion rules of a finished preview marked.
ExcludedIn(r) == applyExclusions(r.rows, RulesOfType(r.rules, "exclusion"))

\* C23: in a finished run, no mapping tuple refers to an excluded event, and the
\* field values and flags are those of a run in which the excluded events were
\* never read.
C23_ExcludedEventsContributeNothing ==
    \A p \in Slots :
        (req[p].op = "preview_engine" /\ req[p].pc = "done" /\ req[p].code = 200)
            => LET kept == SelectSeq(req[p].rows, LAMBDA e : e.id \notin ExcludedIn(req[p]))
                   alone == run(kept, req[p].rules)
               IN  /\ \A i \in 1 .. Len(req[p].mappings) :
                        req[p].mappings[i].taxEventId \notin ExcludedIn(req[p])
                   /\ req[p].mappings = alone.mappings
                   /\ req[p].rs.fieldValues = alone.fieldValues

C23_Witness ==
    \E p \in Slots :
        /\ req[p].op = "preview_engine" /\ req[p].pc = "done" /\ req[p].code = 200
        /\ \E i \in 1 .. Len(req[p].rows), j \in 1 .. Len(req[p].rules) :
            /\ req[p].rows[i].id \in ExcludedIn(req[p])
            /\ req[p].rules[j].rule_type = "mapping"
            /\ evaluate(req[p].rules[j].conditions, req[p].rows[i])

\* The engine previews that have returned a result.
FinishedRuns ==
    { req[p] : p \in { q \in Slots : /\ req[q].op = "preview_engine"
                                     /\ req[q].pc = "done" /\ req[q].code = 200 } }

\* C24: after any run each total equals the sum of its component fields,
\* missing fields counting as zero: the income total over the twelve income
\* categories, and the property, foreign, deduction and adjustment totals.
C24_TotalsEqualComponentSums ==
    \A r \in FinishedRuns :
        LET fv == r.rs.fieldValues
        IN  /\ Get(fv, "LF_INCOME_TOTAL") = SumCodes(fv, IncomeCategories, 1)
            /\ Get(fv, "LF_INCOME_PROPERTY_TOTAL") = SumCodes(fv, PropertyIncomes, 1)
            /\ Get(fv, "LF_INCOME_FOREIGN_TOTAL") = SumCodes(fv, ForeignIncomes, 1)
            /\ Get(fv, "LF_DEDUCTION_TOTAL") = SumCodes(fv, Deductions, 1)
            /\ Get(fv, "LF_ADJUSTMENT_TOTAL") = SumCodes(fv, Adjustments, 1)

\* C25: after any run LF_TAXABLE_INCOME is not negative.
C25_TaxableIncomeNotNegative ==
    \A r \in FinishedRuns : Get(r.rs.fieldValues, "LF_TAXABLE_INCOME") >= 0

\* C26: after any run LF_IPN_CALCULATED is the run's final LF_TAXABLE_INCOME
\* times 0.10, rounded.
C26_IpnIsTenthOfTaxable ==
    \A r \in FinishedRuns :
        Get(r.rs.fieldValues, "LF_IPN_CALCULATED")
            = RoundTenth(Get(r.rs.fieldValues, "LF_TAXABLE_INCOME"))

\* C27: after any run LF_IPN_PAYABLE is max(0, LF_IPN_CALCULATED minus the two
\* foreign tax credits) over the run's final field values.
C27_PayableIsCalculatedLessCredits ==
    \A r \in FinishedRuns :
        LET fv == r.rs.fieldValues
        IN  Get(fv, "LF_IPN_PAYABLE")
                = Max0(Get(fv, "LF_IPN_CALCULATED") - Get(fv, "LF_FOREIGN_TAX_CREDIT_GENERAL")
                       - Get(fv, "LF_FOREIGN_TAX_CREDIT_CFC"))

\* C28: after any run each auto-flag is true exactly when its total is
\* positive: has_income with the income total, has_foreign_income with the
\* foreign total, has_cfc with the CFC profit, has_deductions with the deduction
\* total.
C28_AutoFlagsFollowTotals ==
    \A r \in FinishedRuns :
        LET fv == r.rs.fieldValues
            on(flag) == flag \in DOMAIN r.rs.flags /\ r.rs.flags[flag]
        IN  /\ on("has_income") <=> Get(fv, "LF_INCOME_TOTAL") > 0
            /\ on("has_foreign_income") <=> Get(fv, "LF_INCOME_FOREIGN_TOTAL") > 0
            /\ on("has_cfc") <=> Get(fv, "LF_INCOME_CFC_PROFIT") > 0
            /\ on("has_deductions") <=> Get(fv, "LF_DEDUCTION_TOTAL") > 0

\* C29: a calculation rule whose formula is the text SUM(LF_A, LF_B, ...) or
\* SUB(LF_A, LF_B, ...) leaves in its target what the structured formula
\* leaves: the sum of the named fields, or the first field minus the others
\* taken left to right. Checked on a target that no later phase writes.
C29_TextFormulaAsStructured ==
    \A r \in FinishedRuns :
        \A j \in 1 .. Len(r.rules) :
            LET action == r.rules[j].actions
                fv == r.rs.fieldValues
                refs == action.formula.refs
            IN  (/\ r.rules[j].rule_type = "calculation"
                 /\ action.formula.kind = "text"
                 /\ action.target = "LF_DEDUCTION_OTHER")
                    => Get(fv, action.target)
                        = IF action.formula.op = "SUM" THEN SumCodes(fv, refs, 1)
                          ELSE Get(fv, refs[1]) - SumCodes(fv, Tail(refs), 1)

\* C30: an XML export is stored only by a project_xml call that has run the
\* structural self-check on the document it stores.
C30_SelfCheckBeforePersist ==
    [][\A p \in Slots :
        (req[p].pc = "xml_save" /\ req'[p].pc = "done" /\ Len(xmls') > Len(xmls))
            => req[p].checked]_vars

\* C31: every logical field stored with value v among the declaration's items
\* and mapped to an XML field name by the catalog's xml_field_map appears in
\* each stored export as a field of that name, holding v in ASCII digits, or
\* nothing when v is 0.
C31_MappedAmountsProjected ==
    \A i \in 1 .. Len(xmls) :
        \A lf \in (DOMAIN xmls[i].doc.items) \cap (DOMAIN XmlFieldMap) :
            /\ XmlFieldMap[lf] \in DOMAIN xmls[i].doc.form01
            /\ xmls[i].doc.form01[XmlFieldMap[lf]] = formatMoney(xmls[i].doc.items[lf])

\* C32: no step taken while the declaration is and stays in a status other
\* than draft changes its items, so that the items of a validated,
\* awaiting_consent, signed, submitted, accepted or rejected declaration are
\* those it had when it last left draft. The write of an update_item call,
\* which resets the status to draft in its next statement, is not counted.
C32_ItemsFrozenOutsideDraft ==
    [][(/\ decl.id # 0
        /\ decl'.id = decl.id
        /\ decl.status # "draft"
        /\ decl'.status # "draft"
        /\ ~ \E p \in Slots : req[p].pc = "item_upsert" /\ req'[p].pc = "item_status")
            => items' = items]_vars

\* C33: whatever the interleaving of parse calls on one source record, the
\* events stored for the record are nothing or one copy of the parser's output
\* for its payload, never two copies.
C33_ConcurrentParseStoresOneCopy ==
    \A id \in 1 .. Len(sources) :
        StoredFor(id) \in { << >>, parse(sources[id]).events }

\* C34: when a reparse call fails because the source record is deactivated,
\* the parser rejects the payload or an event type is unknown, the events that
\* were stored for the record before the call (the call counted them as
\* deleted) are still stored.
C34_FailedReparseKeepsEvents ==
    [][ \A p \in Slots :
            (/\ req[p].op = "reparse"
             /\ req'[p].op = "reparse"
             /\ req'[p].pc = "done"
             /\ \/ req[p].pc = "reparse_get" /\ ~sources[req[p].record].is_active
                \/ req[p].pc = "parse_exists" /\ req'[p].code = 400
                \/ /\ req[p].pc = "parse_types"
                   /\ \E i \in 1 .. Len(req[p].parsed) :
                        ~eventTypeExists(req[p].parsed[i].eventType))
            => Len(StoredFor(req[p].record))' >= req[p].deleted ]_vars

\* C36: an engine run that starts after a source record has been deactivated
\* computes, under every rule table, the field values it would compute if the
\* events derived from that record were not stored: those events contribute
\* nothing.
C36_DeactivatedSourceContributesNothing ==
    [][ \A p \in Slots :
            (req[p].pc = "idle" /\ req'[p].op = "preview_engine")
            => LET rows == req'[p].rows
                   active == SelectSeq(rows, LAMBDA r :
                                sources[events[r.id].sourceRecordId].is_active)
               IN  \A rules \in RuleSets :
                        ~run(rows, rules).threw
                        => run(rows, rules).fieldValues = run(active, rules).fieldValues ]_vars

\* C35: when generate has completed, every logical field of the run's field
\* values is stored as an item of the declaration with the same value, the
\* fields whose value is 0 included.
C35_EveryFieldValueStored ==
    \A p \in Slots :
        (req[p].op = "generate" /\ req[p].pc = "done" /\ req[p].code = 200
            /\ decl.id = req[p].id)
        => \A k \in DOMAIN req[p].rs.fieldValues :
                k \in DOMAIN items /\ items[k].value = req[p].rs.fieldValues[k]

\* C37: a regenerate call addressed to the id of a stored declaration that may
\* be regenerated (not submitted, not accepted), whatever its kind, completes
\* on the declaration with that id: it answers 200 and that declaration's
\* items are the run's entries; it ends in no conflict over another row.
C37_GenerateByIdWritesThatDeclaration ==
    \A p \in Slots :
        (/\ req[p].op = "generate" /\ req[p].pc = "done" /\ req[p].code # 500
         /\ decl.id # 0
         /\ decl.status \notin {"submitted", "accepted"})
        => /\ req[p].code = 200
           /\ req[p].id = decl.id
           /\ getItemsAsObject(items)
                = getItemsAsObject(bulkUpsertItems(NoItems, req[p].rs.fieldValues, "rule_engine"))

\* C38: when generate has completed, an auto-flag stored as true on the
\* declaration is one the run that just completed set; a flag left by an
\* earlier run does not stay true, also when this run produced no flags.
C38_NoStaleAutoFlags ==
    LET auto == {"has_income", "has_foreign_income", "pril_2", "has_cfc", "pril_3",
                 "has_deductions", "pril_1"}
    IN  \A p \in Slots :
            (req[p].op = "generate" /\ req[p].pc = "done" /\ req[p].code = 200
                /\ decl.id = req[p].id)
            => \A k \in auto \cap DOMAIN decl.flags :
                    decl.flags[k] => (k \in DOMAIN req[p].rs.flags /\ req[p].rs.flags[k])

\* C39: payloads that differ in any value, nested ones included, have
\* different checksums: an ingest that the checksum lookup refused as a
\* duplicate of a stored record carries exactly that record's payload.
C39_DuplicateOnlyForSamePayload ==
    \A p \in Slots :
        (req[p].op = "importRecord" /\ req[p].pc = "done" /\ req[p].existing # 0)
        => sources[req[p].existing].raw_payload = req[p].payload

\* C40: a rule whose conditions have none of the accepted shapes, or use an
\* operator no evaluator knows, matches nothing: a finished run returns the
\* mappings, field values and flags of a run without such rules, so a
\* malformed exclusion rule excludes no event and a malformed flag rule sets
\* no flag.
C40_MalformedConditionMatchesNothing ==
    LET known == {"=", "eq", "!=", "neq", "in", "not_in", ">", "gt", ">=", "gte", "<", "lt",
                  "<=", "lte", "exists", "not_exists", "contains", "starts_with", "ends_with"}
        malformed(c) == \/ c.shape = "other"
                        \/ c.shape \in {"single", "compact"} /\ c.op \notin known
    IN  \A r \in FinishedRuns :
            LET sound == run(r.rows, SelectSeq(r.rules, LAMBDA x : ~malformed(x.conditions)))
            IN  /\ r.mappings = sound.mappings
                /\ r.rs.fieldValues = sound.fieldValues
                /\ r.rs.flags = sound.flags

====
